---- MODULE Spec2Model ----
(***************************************************************************)
(* Model of src/framework/standard/args.rs: the Lexer that splits a        *)
(* message into Delimiter / Argument / QuotedArgument tokens, and Args,    *)
(* the cursor over the non-delimiter tokens with its typed accessors.      *)
(*                                                                         *)
(* A string is a sequence of UTF-8 bytes, every byte written as a TLA+     *)
(* string: "1" (an ASCII digit), " " (a space), "\"" (a double quote) and  *)
(* the two bytes "C3" "A9" of the two-byte character U+00E9.  Offsets are  *)
(* byte offsets counted from 0, as in the source.                          *)
(***************************************************************************)
EXTENDS Integers, Sequences, FiniteSets, TLC

VARIABLES message, possible_delimiters, lex_offset, tokens, args, offset,
          pc, op, ret, iter

vars == <<message, possible_delimiters, lex_offset, tokens, args, offset,
          pc, op, ret, iter>>

-----------------------------------------------------------------------------
(* Bounds of the model.                                                    *)

\* Longest message, in characters.
MaxChars == 5
\* Largest argument handed to skip_for.
MaxSkip == 3
\* Number of next() calls made on one iterator before the caller gives up.
MaxIterCalls == 3

-----------------------------------------------------------------------------
(* Bytes, characters and strings.                                          *)

Digit == <<"1">>
Space == <<" ">>
Quote == <<"\"">>
EAcute == <<"C3", "A9">>

Alphabet == {Digit, Space, Quote, EAcute}

\* A continuation byte of a multi-byte character (0b10xxxxxx).
IsContinuation(b) == b = "A9"

RECURSIVE Messages(_)
Messages(n) ==
    IF n = 0 THEN {<< >>}
    ELSE LET shorter == Messages(n - 1)
         IN  shorter \cup {m \o c : m \in shorter, c \in Alphabet}

\* The delimiter lists a command may be configured with.
DelimiterLists == { <<Space>>, <<EAcute \o Space>> }

Some(v) == [some |-> TRUE, val |-> v]
None == [some |-> FALSE, val |-> 0]

\* str::is_char_boundary
is_char_boundary(s, i) ==
    IF i = 0 \/ i = Len(s) THEN TRUE
    ELSE IF i < 0 \/ i > Len(s) THEN FALSE
    ELSE ~IsContinuation(s[i + 1])

\* &s[b..e] is defined (does not panic) exactly for these indices.
SliceOk(s, b, e) ==
    /\ 0 <= b /\ b <= e /\ e <= Len(s)
    /\ is_char_boundary(s, b) /\ is_char_boundary(s, e)

\* &s[b..e]
Slice(s, b, e) == SubSeq(s, b + 1, e)

RECURSIVE find_start_loop(_, _)
find_start_loop(s, start) ==
    IF is_char_boundary(s, start) THEN start ELSE find_start_loop(s, start - 1)

find_start(s, i) ==
    IF i > Len(s) THEN None ELSE Some(find_start_loop(s, i - 1))

RECURSIVE find_end_loop(_, _)
find_end_loop(s, end) ==
    IF is_char_boundary(s, end) THEN end ELSE find_end_loop(s, end + 1)

\* find_end, were it to stop at the next byte whatever it is.
find_end_next_byte(s, i) ==
    IF i > Len(s) THEN None ELSE Some(i + 1)

find_end(s, i) ==
    IF i > Len(s) THEN None ELSE Some(find_end_loop(s, i + 1))

\* s.chars(): the characters of s, each as its byte string.
RECURSIVE chars(_)
chars(s) ==
    IF s = << >> THEN << >>
    ELSE LET e == find_end_loop(s, 1)
         IN  <<Slice(s, 0, e)>> \o chars(Slice(s, e, Len(s)))

\* haystack.contains(needle) for a string needle.
str_contains(haystack, needle) ==
    \E b \in 0..(Len(haystack) - Len(needle)) :
        Slice(haystack, b, b + Len(needle)) = needle

\* s.contains(cs) for a slice of characters cs: some character of s is in cs.
contains_any(s, cs) ==
    \E i \in 1..Len(chars(s)) : \E j \in 1..Len(cs) : chars(s)[i] = cs[j]

\* The filter of Args::new, were it to keep every configured string.
FilterKeepingAll(ss, m) == ss

RECURSIVE Filter(_, _)
Filter(ss, m) ==
    IF ss = << >> THEN << >>
    ELSE (IF str_contains(m, Head(ss)) THEN <<Head(ss)>> ELSE << >>)
         \o Filter(Tail(ss), m)

RECURSIVE FlatMapChars(_)
FlatMapChars(ss) ==
    IF ss = << >> THEN << >> ELSE chars(Head(ss)) \o FlatMapChars(Tail(ss))

\* The `delims` of Args::new.
delims_of(m, possible) == FlatMapChars(Filter(possible, m))

-----------------------------------------------------------------------------
(* Lexer.                                                                  *)

\* A token, were it to record the offset where its literal ends.
TokenAtEnd(kind, lit, pos) == [kind |-> kind, lit |-> lit, pos |-> pos + Len(lit)]

Token(kind, lit, pos) == [kind |-> kind, lit |-> lit, pos |-> pos]

at_end(m, off) == off >= Len(m)

\* Lexer::current: Some(character at the offset), None at the end of input.
current(m, off) ==
    IF at_end(m, off) THEN None
    ELSE LET end == find_end(m, off)
         IN  IF ~end.some THEN None ELSE Some(Slice(m, off, end.val))

\* Lexer::next, were it to move by one byte.
next_one_byte(m, off) == IF at_end(m, off) THEN off ELSE off + 1

\* Lexer::next: the offset after the call.
next(m, off) ==
    LET c == current(m, off) IN IF c.some THEN off + Len(c.val) ELSE off

\* The slice Lexer::current takes at this offset is a valid one.
current_ok(m, off) ==
    at_end(m, off) \/ ~find_end(m, off).some
        \/ SliceOk(m, off, find_end(m, off).val)

\* while !self.at_end() && self.current().unwrap() != "\"" { self.next(); }
RECURSIVE scan_quote(_, _)
scan_quote(m, off) ==
    IF at_end(m, off) \/ ~current_ok(m, off) THEN off
    ELSE IF current(m, off).val = Quote THEN off
    ELSE scan_quote(m, next(m, off))

\* while !self.at_end() && !self.current().unwrap().contains(self.delims) { self.next(); }
RECURSIVE scan_argument(_, _, _)
scan_argument(m, delims, off) ==
    IF at_end(m, off) \/ ~current_ok(m, off) THEN off
    ELSE IF contains_any(current(m, off).val, delims) THEN off
    ELSE scan_argument(m, delims, next(m, off))

\* Lexer::commit from the given offset: the Option<Token> it returns, the
\* offset it leaves, and whether it panics on a slice.
commit(m, delims, off) ==
    IF at_end(m, off) THEN
        [some |-> FALSE, panic |-> FALSE, off |-> off, tok |-> Token("Argument", << >>, off)]
    ELSE IF ~current_ok(m, off) THEN
        [some |-> FALSE, panic |-> TRUE, off |-> off, tok |-> Token("Argument", << >>, off)]
    ELSE IF contains_any(current(m, off).val, delims) THEN
        LET o1 == next(m, off)
        IN  [some |-> TRUE, panic |-> ~SliceOk(m, off, o1), off |-> o1,
             tok |-> Token("Delimiter", Slice(m, off, o1), off)]
    ELSE IF current(m, off).val = Quote THEN
        LET o1  == next(m, off)
            o2  == scan_quote(m, o1)
            end == next(m, o2)
            fs  == find_start(m, end)
            unterminated ==
                at_end(m, end) /\ Slice(m, fs.val, end) # Quote
        IN  [some |-> TRUE,
             panic |-> \/ ~current_ok(m, o2)
                       \/ ~fs.some
                       \/ ~SliceOk(m, fs.val, end)
                       \/ (unterminated /\ ~SliceOk(m, off, Len(m)))
                       \/ (~unterminated /\ ~SliceOk(m, off, end)),
             off |-> end,
             tok |-> IF unterminated
                     THEN Token("Argument", Slice(m, off, Len(m)), off)
                     ELSE Token("QuotedArgument", Slice(m, off, end), off)]
    ELSE
        LET o1 == scan_argument(m, delims, off)
        IN  [some |-> TRUE,
             panic |-> ~current_ok(m, o1) \/ ~SliceOk(m, off, o1),
             off |-> o1,
             tok |-> Token("Argument", Slice(m, off, o1), off)]

-----------------------------------------------------------------------------
(* Results handed back to the caller.                                      *)

NoOp == [name |-> "none", ty |-> "-", n |-> 0]
Op(name, ty, n) == [name |-> name, ty |-> ty, n |-> n]

\* Result<T, T::Err> / Option<..> values; `num` carries a u32, `str` a
\* String, `list` a Vec<String>.
Value(tag) == [tag |-> tag, num |-> 0, str |-> << >>, list |-> << >>]
Unit == Value("Unit")
Eos == Value("Eos")
ParseError == Value("Parse")
Panic == Value("Panic")
NoneValue == Value("None")
OkNum(n) == [Value("Ok") EXCEPT !.num = n]
OkStr(s) == [Value("Ok") EXCEPT !.str = s]
SomeStr(s) == [Value("Some") EXCEPT !.str = s]
SomeList(l) == [Value("Some") EXCEPT !.list = l]

OkList(l) == [Value("Ok") EXCEPT !.list = l]
NoIter == [active |-> FALSE, ty |-> "-", quoted |-> FALSE, at_start |-> 0, yielded |-> 0]

-----------------------------------------------------------------------------
(* Args::new: one action per iteration of its `while let` loop.            *)

Init ==
    /\ message \in Messages(MaxChars)
    /\ possible_delimiters \in DelimiterLists
    /\ lex_offset = 0
    /\ tokens = << >>
    /\ args = << >>
    /\ offset = 0
    /\ pc = "new"
    /\ op = NoOp
    /\ ret = Unit
    /\ iter = NoIter

delims == delims_of(message, possible_delimiters)

\* The loop of Args::new, were it to push every token it is handed.
NewCommitKeepingDelimiters ==
    /\ pc = "new"
    /\ LET c == commit(message, delims, lex_offset)
       IN  /\ c.some
           /\ lex_offset' = c.off
           /\ tokens' = Append(tokens, c.tok)
           /\ args' = Append(args, c.tok)
    /\ UNCHANGED <<message, possible_delimiters, offset, pc, op, ret, iter>>

\* while let Some(token) = lex.commit() { if Delimiter { continue } args.push(token) }
NewCommit ==
    /\ pc = "new"
    /\ LET c == commit(message, delims, lex_offset)
       IN  /\ c.some
           /\ IF c.panic
              THEN /\ pc' = "panicked"
                   /\ ret' = Panic
                   /\ UNCHANGED <<lex_offset, tokens, args>>
              ELSE /\ lex_offset' = c.off
                   /\ tokens' = Append(tokens, c.tok)
                   /\ args' = IF c.tok.kind = "Delimiter" THEN args
                              ELSE Append(args, c.tok)
                   /\ UNCHANGED <<pc, ret>>
    /\ UNCHANGED <<message, possible_delimiters, offset, op, iter>>

\* commit returns None: the Args value is built, with offset 0.
NewReturn ==
    /\ pc = "new"
    /\ ~commit(message, delims, lex_offset).some
    /\ IF commit(message, delims, lex_offset).panic
       THEN pc' = "panicked" /\ ret' = Panic /\ op' = op
       ELSE pc' = "ready" /\ ret' = Unit /\ op' = Op("new", "-", 0)
    /\ offset' = 0
    /\ UNCHANGED <<message, possible_delimiters, lex_offset, tokens, args, iter>>

-----------------------------------------------------------------------------
(* FromStr for the two target types the documentation uses: String (which  *)
(* accepts every string) and u32 (one or more ASCII digits; no message of  *)
(* the model is long enough to overflow 32 bits).                          *)

Types == {"String", "u32"}

all_digits(s) == \A i \in 1..Len(s) : s[i] = "1"

RECURSIVE decimal(_)
decimal(s) == IF s = << >> THEN 0 ELSE 10 * decimal(SubSeq(s, 1, Len(s) - 1)) + 1

from_str(ty, s) ==
    IF ty = "String" THEN OkStr(s)
    ELSE IF s # << >> /\ all_digits(s) THEN OkNum(decimal(s))
    ELSE ParseError

\* quotes_extract: the string it returns, or a panic of the slice.
quotes_extract(token) ==
    IF token.kind = "QuotedArgument"
    THEN IF SliceOk(token.lit, 1, Len(token.lit) - 1)
         THEN [panic |-> FALSE, str |-> Slice(token.lit, 1, Len(token.lit) - 1)]
         ELSE [panic |-> TRUE, str |-> << >>]
    ELSE [panic |-> FALSE, str |-> token.lit]

-----------------------------------------------------------------------------
(* Methods of Args as functions of the fields they read: each gives the    *)
(* value returned and the fields after the call.                           *)

len(a) == Len(a)

is_empty(a, off) == off >= Len(a)

remaining(a, off) == IF is_empty(a, off) THEN 0 ELSE len(a) - off

Outcome(r, a, off) == [ret |-> r, args |-> a, offset |-> off]

\* single, were it to advance past a token it failed to parse.
single_advancing(a, off, ty) ==
    IF is_empty(a, off) THEN Outcome(Eos, a, off)
    ELSE LET parsed == from_str(ty, a[off + 1].lit)
         IN  IF parsed.tag = "Ok" THEN Outcome(parsed, a, off + 1)
             ELSE Outcome(ParseError, a, off + 1)

single(a, off, ty) ==
    IF is_empty(a, off) THEN Outcome(Eos, a, off)
    ELSE LET parsed == from_str(ty, a[off + 1].lit)
         IN  IF parsed.tag = "Ok" THEN Outcome(parsed, a, off + 1)
             ELSE Outcome(ParseError, a, off)

single_n(a, off, ty) ==
    IF is_empty(a, off) THEN Outcome(Eos, a, off)
    ELSE Outcome(from_str(ty, a[off + 1].lit), a, off)

skip(a, off) ==
    IF is_empty(a, off) THEN Outcome(NoneValue, a, off)
    ELSE LET r == single(a, off, "String")
         IN  Outcome(IF r.ret.tag = "Ok" THEN SomeStr(r.ret.str) ELSE NoneValue,
                     r.args, r.offset)

\* for _ in 0..i { vec.push(self.skip()?); }
RECURSIVE skip_for_loop(_, _, _, _)
skip_for_loop(a, off, left, vec) ==
    IF left = 0 THEN Outcome(SomeList(vec), a, off)
    ELSE LET r == skip(a, off)
         IN  IF r.ret.tag = "None" THEN Outcome(NoneValue, r.args, r.offset)
             ELSE skip_for_loop(r.args, r.offset, left - 1, Append(vec, r.ret.str))

\* skip_for, were it to refuse a count it cannot serve before skipping anything.
skip_for_checked(a, off, i) ==
    IF is_empty(a, off) \/ i > remaining(a, off) THEN Outcome(NoneValue, a, off)
    ELSE skip_for_loop(a, off, i, << >>)

skip_for(a, off, i) ==
    IF is_empty(a, off) THEN Outcome(NoneValue, a, off)
    ELSE skip_for_loop(a, off, i, << >>)

single_quoted(a, off, ty) ==
    IF is_empty(a, off) THEN Outcome(Eos, a, off)
    ELSE LET lit == quotes_extract(a[off + 1])
             parsed == from_str(ty, lit.str)
         IN  IF lit.panic THEN Outcome(Panic, a, off)
             ELSE IF parsed.tag = "Ok" THEN Outcome(parsed, a, off + 1)
             ELSE Outcome(ParseError, a, off)

single_quoted_n(a, off, ty) ==
    IF is_empty(a, off) THEN Outcome(Eos, a, off)
    ELSE LET lit == quotes_extract(a[off + 1])
         IN  IF lit.panic THEN Outcome(Panic, a, off)
             ELSE Outcome(from_str(ty, lit.str), a, off)

\* self.args.iter().map(|t| quotes_extract(t)).position(|s| s.parse::<T>().is_ok()),
\* evaluated lazily from index k (0-based) on.
RECURSIVE position(_, _, _)
position(a, ty, k) ==
    IF k >= Len(a) THEN [panic |-> FALSE, some |-> FALSE, val |-> 0]
    ELSE LET lit == quotes_extract(a[k + 1])
         IN  IF lit.panic THEN [panic |-> TRUE, some |-> FALSE, val |-> 0]
             ELSE IF from_str(ty, lit.str).tag = "Ok"
                  THEN [panic |-> FALSE, some |-> TRUE, val |-> k]
                  ELSE position(a, ty, k + 1)

\* remove, were it to drop the head of the vector whatever the index.
remove_head(a, pos) == Tail(a)

\* Vec::remove(pos)
remove(a, pos) == SubSeq(a, 1, pos) \o SubSeq(a, pos + 2, Len(a))

\* rewind, were it to step back without looking at the cursor first.
rewind_unclamped(off) == off - 1

\* rewind, were it to go back to the start as restore does.
rewind_to_start(off) == 0

rewind(off) == IF off = 0 THEN off ELSE off - 1

\* restore, were it to step back once as rewind does.
restore_one_step(off) == IF off = 0 THEN off ELSE off - 1

restore(off) == 0

find(a, off, ty) ==
    IF is_empty(a, off) THEN Outcome(Eos, a, off)
    ELSE LET pos == position(a, ty, 0)
         IN  IF pos.panic THEN Outcome(Panic, a, off)
             ELSE IF ~pos.some THEN Outcome(Eos, a, off)
             ELSE LET parsed == from_str(ty, quotes_extract(a[pos.val + 1]).str)
                  IN  IF parsed.tag # "Ok" THEN Outcome(ParseError, a, off)
                      ELSE Outcome(parsed, remove(a, pos.val), rewind(off))

\* find_n, were it to remove the token it found as find does.
find_n_removing(a, off, ty) == find(a, off, ty)

find_n(a, off, ty) ==
    IF is_empty(a, off) THEN Outcome(Eos, a, off)
    ELSE LET pos == position(a, ty, 0)
         IN  IF pos.panic THEN Outcome(Panic, a, off)
             ELSE IF ~pos.some THEN Outcome(Eos, a, off)
             ELSE Outcome(from_str(ty, quotes_extract(a[pos.val + 1]).str), a, off)

\* The loop of Args::new as one function: the tokens it keeps.
RECURSIVE new_loop(_, _, _)
new_loop(m, ds, off) ==
    LET c == commit(m, ds, off)
    IN  IF ~c.some \/ c.panic THEN << >>
        ELSE (IF c.tok.kind = "Delimiter" THEN << >> ELSE <<c.tok>>)
             \o new_loop(m, ds, c.off)

\* The Args value Args::new returns.
Args_new(m, pds) ==
    [message |-> m, args |-> new_loop(m, delims_of(m, pds), 0), offset |-> 0]

\* PartialEq, were it derived over all the fields.
eq_derived(self, other) == self = other

\* impl PartialEq for Args
eq(self, other) == self.message = other.message

full(m) == m

\* s.rfind('"'): the byte index of the last double quote.
rfind_quote(s) ==
    IF \E i \in 1..Len(s) : s[i] = "\""
    THEN Some((CHOOSE i \in 1..Len(s) :
                 s[i] = "\"" /\ \A j \in (i + 1)..Len(s) : s[j] # "\"") - 1)
    ELSE None

full_quoted(m) ==
    IF m = << >> \/ m[1] # "\"" THEN m
    ELSE LET end == rfind_quote(m)
         IN  IF ~end.some THEN m
             ELSE IF end.val = 0 THEN m
             ELSE Slice(m, 1, end.val)

\* rest, were it to join the literals of the tokens still held.
RECURSIVE rest_of_held(_, _, _)
rest_of_held(m, a, off) ==
    IF is_empty(a, off) THEN << >>
    ELSE a[off + 1].lit \o rest_of_held(m, a, off + 1)

\* rest, were it to ignore the position of the current token.
rest_whole(m, a, off) == IF is_empty(a, off) THEN << >> ELSE m

rest(m, a, off) ==
    IF is_empty(a, off) THEN << >>
    ELSE Slice(m, a[off + 1].pos, Len(m))

\* The slices taken by rest() and full_quoted() are valid.
rest_ok(m, a, off) == is_empty(a, off) \/ SliceOk(m, a[off + 1].pos, Len(m))

full_quoted_ok(m) ==
    \/ m = << >> \/ m[1] # "\""
    \/ ~rfind_quote(m).some \/ rfind_quote(m).val = 0
    \/ SliceOk(m, 1, rfind_quote(m).val)

\* Iter::next / IterQuoted::next on a live iterator.
iter_next(a, off, ty, quoted) ==
    IF is_empty(a, off) THEN Outcome(NoneValue, a, off)
    ELSE IF quoted THEN single_quoted(a, off, ty) ELSE single(a, off, ty)

\* self.iter::<T>().collect::<Result<Vec<T>, _>>(): items are pulled until the
\* iterator ends or yields an Err, which is returned at once.
RECURSIVE collect(_, _, _, _, _)
collect(a, off, ty, quoted, vec) ==
    LET r == iter_next(a, off, ty, quoted)
    IN  IF r.ret.tag = "None" THEN Outcome(OkList(vec), r.args, r.offset)
        ELSE IF r.ret.tag # "Ok" THEN r
        ELSE collect(r.args, r.offset, ty, quoted,
                     Append(vec, IF ty = "String" THEN r.ret.str ELSE r.ret.num))

multiple(a, off, ty) ==
    IF is_empty(a, off) THEN Outcome(Eos, a, off)
    ELSE collect(a, off, ty, FALSE, << >>)

multiple_quoted(a, off, ty) ==
    IF is_empty(a, off) THEN Outcome(Eos, a, off)
    ELSE collect(a, off, ty, TRUE, << >>)

-----------------------------------------------------------------------------
(* The calls a command makes on its Args.                                  *)

\* The fields after a call, and whether the call unwound with a panic.
Return(name, ty, n, out) ==
    /\ op' = Op(name, ty, n)
    /\ ret' = out.ret
    /\ args' = out.args
    /\ offset' = out.offset
    /\ pc' = IF out.ret.tag = "Panic" THEN "panicked" ELSE pc
    /\ UNCHANGED <<message, possible_delimiters, lex_offset, tokens>>

Single(ty) ==
    /\ pc = "ready"
    /\ Return("single", ty, 0, single(args, offset, ty))
    /\ UNCHANGED iter

SingleN(ty) ==
    /\ pc = "ready"
    /\ Return("single_n", ty, 0, single_n(args, offset, ty))
    /\ UNCHANGED iter

Skip ==
    /\ pc = "ready"
    /\ Return("skip", "String", 0, skip(args, offset))
    /\ UNCHANGED iter

SkipFor(i) ==
    /\ pc = "ready"
    /\ Return("skip_for", "String", i, skip_for(args, offset, i))
    /\ UNCHANGED iter

SingleQuoted(ty) ==
    /\ pc = "ready"
    /\ Return("single_quoted", ty, 0, single_quoted(args, offset, ty))
    /\ UNCHANGED iter

SingleQuotedN(ty) ==
    /\ pc = "ready"
    /\ Return("single_quoted_n", ty, 0, single_quoted_n(args, offset, ty))
    /\ UNCHANGED iter

Find(ty) ==
    /\ pc = "ready"
    /\ Return("find", ty, 0, find(args, offset, ty))
    /\ UNCHANGED iter

FindN(ty) ==
    /\ pc = "ready"
    /\ Return("find_n", ty, 0, find_n(args, offset, ty))
    /\ UNCHANGED iter

Rewind ==
    /\ pc = "ready"
    /\ Return("rewind", "-", 0, Outcome(Unit, args, rewind(offset)))
    /\ UNCHANGED iter

Restore ==
    /\ pc = "ready"
    /\ Return("restore", "-", 0, Outcome(Unit, args, restore(offset)))
    /\ UNCHANGED iter

\* args.iter::<T>() / args.iter_quoted::<T>(): the iterator borrows the Args
\* mutably, so until it is dropped only its next() can be called.
IterNew(ty, quoted) ==
    /\ pc = "ready"
    /\ pc' = "iterating"
    /\ iter' = [active |-> TRUE, ty |-> ty, quoted |-> quoted,
                at_start |-> remaining(args, offset), yielded |-> 0]
    /\ op' = Op(IF quoted THEN "iter_quoted" ELSE "iter", ty, 0)
    /\ ret' = Unit
    /\ UNCHANGED <<message, possible_delimiters, lex_offset, tokens, args, offset>>

IterNext ==
    /\ pc = "iterating"
    /\ iter.yielded < MaxIterCalls
    /\ LET out == iter_next(args, offset, iter.ty, iter.quoted)
       IN  /\ Return("next", iter.ty, 0, out)
           /\ iter' = IF out.ret.tag \in {"Ok", "Parse"}
                      THEN [iter EXCEPT !.yielded = @ + 1] ELSE iter

IterDrop ==
    /\ pc = "iterating"
    /\ pc' = "ready"
    /\ iter' = NoIter
    /\ op' = Op("drop", "-", 0)
    /\ ret' = Unit
    /\ UNCHANGED <<message, possible_delimiters, lex_offset, tokens, args, offset>>

\* multiple and multiple_quoted take the Args by value: it is gone afterwards.
Multiple(ty) ==
    /\ pc = "ready"
    /\ LET out == multiple(args, offset, ty)
       IN  /\ op' = Op("multiple", ty, 0)
           /\ ret' = out.ret
           /\ offset' = out.offset
           /\ pc' = IF out.ret.tag = "Panic" THEN "panicked" ELSE "consumed"
    /\ UNCHANGED <<message, possible_delimiters, lex_offset, tokens, args, iter>>

MultipleQuoted(ty) ==
    /\ pc = "ready"
    /\ LET out == multiple_quoted(args, offset, ty)
       IN  /\ op' = Op("multiple_quoted", ty, 0)
           /\ ret' = out.ret
           /\ offset' = out.offset
           /\ pc' = IF out.ret.tag = "Panic" THEN "panicked" ELSE "consumed"
    /\ UNCHANGED <<message, possible_delimiters, lex_offset, tokens, args, iter>>
Next ==
    \/ NewCommit
    \/ NewReturn
    \/ \E ty \in Types : Single(ty)
    \/ \E ty \in Types : SingleN(ty)
    \/ Skip
    \/ \E i \in 0..MaxSkip : SkipFor(i)
    \/ \E ty \in Types : SingleQuoted(ty)
    \/ \E ty \in Types : SingleQuotedN(ty)
    \/ \E ty \in Types : Find(ty)
    \/ \E ty \in Types : FindN(ty)
    \/ Rewind
    \/ Restore
    \/ \E ty \in Types, quoted \in BOOLEAN : IterNew(ty, quoted)
    \/ IterNext
    \/ IterDrop
    \/ \E ty \in Types : Multiple(ty)
    \/ \E ty \in Types : MultipleQuoted(ty)

Spec == Init /\ [][Next]_vars

-----------------------------------------------------------------------------
(* Vocabulary of the properties.                                           *)

\* The token parses as ty once its quote pair is stripped.
ParsesAs(tok, ty) ==
    /\ ~quotes_extract(tok).panic
    /\ from_str(ty, quotes_extract(tok).str).tag = "Ok"

SomeTokenParses(a, ty) == \E k \in 1..Len(a) : ParsesAs(a[k], ty)

\* Index (from 1) of the first token that parses as ty.
FirstParsing(a, ty) ==
    CHOOSE k \in 1..Len(a) :
        ParsesAs(a[k], ty) /\ \A j \in 1..(k - 1) : ~ParsesAs(a[j], ty)

\* The sequence without its k-th element (k from 1).
Without(a, k) ==
    [i \in 1..(Len(a) - 1) |-> IF i < k THEN a[i] ELSE a[i + 1]]

\* A call on a constructed Args returns in this step.
Called(name) == pc = "ready" /\ op'.name = name

\* The message without its leading delimiter characters.
RECURSIVE StripLeadingDelims(_, _)
StripLeadingDelims(m, ds) ==
    IF m = << >> THEN m
    ELSE LET c == chars(m)[1]
         IN  IF \E j \in 1..Len(ds) : ds[j] = c
             THEN StripLeadingDelims(SubSeq(m, Len(c) + 1, Len(m)), ds)
             ELSE m

StartsWithDelim(m, ds) == StripLeadingDelims(m, ds) # m

JustBuilt == pc = "ready" /\ op.name = "new"

-----------------------------------------------------------------------------
(* C1 *)

-----------------------------------------------------------------------------
(* C2 *)

\* C2: find and find_n search all held tokens whatever the cursor is: if
\* some held token parses as T after quote-stripping, the call returns the
\* value of the first such token, also when the cursor equals len.
C2_FindIgnoresCursor ==
    [][\A name \in {"find", "find_n"} :
         (Called(name) /\ SomeTokenParses(args, op'.ty))
           => ret' = from_str(op'.ty,
                        quotes_extract(args[FirstParsing(args, op'.ty)]).str)]_vars

-----------------------------------------------------------------------------
(* C3 *)

\* C3: no operation panics, for any message, delimiter list and sequence
\* of calls: construction and every call return, and the slices taken by
\* rest() and full_quoted() are valid.
C3_NoPanic ==
    /\ pc # "panicked"
    /\ pc \in {"ready", "iterating"}
         => rest_ok(message, args, offset) /\ full_quoted_ok(message)

-----------------------------------------------------------------------------
(* C4 *)

\* C4: a token that starts at a double quote with no later double quote
\* in the message is an Argument running to the end of the message, and
\* every QuotedArgument literal has at least two bytes and starts and ends
\* with a double quote.
C4_UnterminatedQuoteIsArgument ==
    \A i \in 1..Len(tokens) :
        LET t == tokens[i]
        IN  /\ (/\ t.kind # "Delimiter"
                /\ t.lit[1] = "\""
                /\ \A j \in (t.pos + 2)..Len(message) : message[j] # "\"")
                 => /\ t.kind = "Argument"
                    /\ t.lit = Slice(message, t.pos, Len(message))
            /\ t.kind = "QuotedArgument"
                 => /\ Len(t.lit) >= 2
                    /\ t.lit[1] = "\""
                    /\ t.lit[Len(t.lit)] = "\""

-----------------------------------------------------------------------------
(* C5 *)

\* C5: an iterator yields at most as many items as remaining() was when it
\* was created, and when its next() returns None the Args is empty.
C5_IterFinite ==
    /\ iter.active => iter.yielded <= iter.at_start
    /\ (pc = "iterating" /\ op.name = "next" /\ ret.tag = "None")
         => is_empty(args, offset)

-----------------------------------------------------------------------------
(* C6 *)

\* C6 (as stated): rest() right after Args::new equals full().
C6_RestAfterNewIsFull ==
    JustBuilt => rest(message, args, offset) = full(message)

\* C6 (amended): rest() right after Args::new is the message without its
\* leading active delimiter characters; it equals full() exactly when the
\* message does not start with an active delimiter character.
C6_RestAfterNewSkipsLeadingDelims ==
    JustBuilt =>
        /\ rest(message, args, offset) = StripLeadingDelims(message, delims)
        /\ (rest(message, args, offset) = full(message))
             <=> ~StartsWithDelim(message, delims)

\* Right after construction of a message that starts with a delimiter and
\* holds a token.
C6_Witness ==
    /\ JustBuilt
    /\ StartsWithDelim(message, delims)
    /\ Len(args) >= 1
    /\ rest(message, args, offset) # full(message)

-----------------------------------------------------------------------------
(* C7 *)

\* C7: a successful find removes exactly the first held token that parses
\* as T after quote-stripping and keeps the others in order, so len() drops
\* by one; no other call on a constructed Args, nor a failed find, nor an
\* iterator step, changes the held tokens.
C7_FindRemovesFirstMatch ==
    [][(pc = "ready" \/ pc = "iterating") =>
         (IF Called("find") /\ ret'.tag = "Ok"
          THEN /\ SomeTokenParses(args, op'.ty)
               /\ args' = Without(args, FirstParsing(args, op'.ty))
               /\ len(args') = len(args) - 1
          ELSE args' = args)]_vars

\* A successful find::<u32> that removed a token other than the first held.
C7_Witness ==
    /\ op = Op("find", "u32", 0) /\ ret.tag = "Ok"
    /\ Len(args) >= 2
    /\ ~ParsesAs(args[1], "u32")

-----------------------------------------------------------------------------
(* C8 *)

\* C8: when no held token parses as T, find returns EndOfInput and leaves
\* the tokens and the cursor as they were.
C8_FailedFindLeavesState ==
    [][(Called("find") /\ ~SomeTokenParses(args, op'.ty))
         => (ret' = Eos /\ args' = args /\ offset' = offset)]_vars

-----------------------------------------------------------------------------
(* C9 *)

\* C9: single returns EndOfInput when the cursor is at or past the token
\* count; otherwise it parses the raw literal under the cursor, and either
\* returns the value and advances the cursor by one, or returns the parse
\* failure with cursor and tokens unchanged; single_n returns the same
\* result and never moves the cursor.
C9_Single ==
    [][\A name \in {"single", "single_n"} :
         Called(name) =>
           /\ args' = args
           /\ IF offset >= Len(args)
              THEN ret' = Eos /\ offset' = offset
              ELSE LET r == from_str(op'.ty, args[offset + 1].lit)
                   IN  /\ ret' = (IF r.tag = "Ok" THEN r ELSE ParseError)
                       /\ offset' = (IF r.tag = "Ok" /\ name = "single"
                                     THEN offset + 1 ELSE offset)]_vars

\* single::<u32> failed on the second token after the first was consumed.
C9_Witness ==
    /\ op = Op("single", "u32", 0) /\ ret = ParseError
    /\ offset = 1 /\ Len(args) >= 2
    /\ args[1].kind = "Argument" /\ ParsesAs(args[1], "u32")

-----------------------------------------------------------------------------
(* C10 *)

\* C10: skip_for(n) with n greater than remaining() returns None and
\* leaves the cursor at the token count: the skips made before the
\* shortfall are kept.
C10_SkipForShortfall ==
    [][(Called("skip_for") /\ op'.n > remaining(args, offset))
         => (ret' = NoneValue /\ offset' = Len(args) /\ args' = args)]_vars

\* skip_for(3) came back empty-handed on two tokens, both of them skipped.
C10_Witness ==
    /\ op = Op("skip_for", "String", 3) /\ ret = NoneValue
    /\ Len(args) = 2 /\ offset = 2

-----------------------------------------------------------------------------
(* C11 *)

\* C11: single_n, single_quoted_n and find_n leave the cursor and the held
\* tokens as they are, and the same call made again right after returns the
\* same result.
C11_PeeksAreIdempotent ==
    [][\A name \in {"single_n", "single_quoted_n", "find_n"} :
         Called(name) =>
           /\ args' = args /\ offset' = offset /\ message' = message
           /\ (op = op' => ret' = ret)]_vars

\* find_n::<u32> found a token behind the cursor and left all tokens held.
C11_Witness ==
    /\ op = Op("find_n", "u32", 0) /\ ret.tag = "Ok"
    /\ offset = 1 /\ Len(args) = 2
    /\ ParsesAs(args[1], "u32")

-----------------------------------------------------------------------------
(* C12 *)

\* C12: once the Args is constructed, 0 <= cursor <= token count,
\* is_empty() is exactly cursor >= len(), and remaining() is len() - cursor.
C12_CursorWithinTokens ==
    pc # "new" =>
        /\ 0 <= offset /\ offset <= Len(args)
        /\ is_empty(args, offset) <=> (offset >= len(args))
        /\ remaining(args, offset) = len(args) - offset

\* A find removed a token and skips then took the cursor to the token count.
C12_Witness ==
    /\ pc = "ready" /\ op.name = "skip"
    /\ offset = Len(args) /\ Len(args) = 2
    /\ \E i \in 1..Len(tokens) :
          tokens[i].kind # "Delimiter"
            /\ \A k \in 1..Len(args) : args[k] # tokens[i]

-----------------------------------------------------------------------------
(* C13 *)

\* C13: the tokens held by Args never include a Delimiter token, nor a
\* token whose literal is a single active delimiter character.
C13_NoDelimiterHeld ==
    \A k \in 1..Len(args) :
        /\ args[k].kind # "Delimiter"
        /\ \A j \in 1..Len(delims) : args[k].lit # delims[j]

\* The lexer produced delimiters, a find removed a token, and tokens are
\* still held.
C13_Witness ==
    /\ op.name = "find" /\ ret.tag = "Ok" /\ Len(args) >= 1
    /\ \E i \in 1..Len(tokens) : tokens[i].kind = "Delimiter"

-----------------------------------------------------------------------------
(* C14 *)

\* C14: every token the lexer produces starts and ends on a character
\* boundary of the message and its literal is the message's bytes between
\* the two; the lexer takes no slice off a boundary.
C14_TokensOnBoundaries ==
    /\ ~(pc = "panicked" /\ op = NoOp)
    /\ \A i \in 1..Len(tokens) :
          LET t == tokens[i]
              end == t.pos + Len(t.lit)
          IN  /\ 0 <= t.pos /\ end <= Len(message)
              /\ is_char_boundary(message, t.pos)
              /\ is_char_boundary(message, end)
              /\ t.lit = SubSeq(message, t.pos + 1, end)

\* A two-byte delimiter between two arguments.
C14_Witness ==
    /\ pc = "ready" /\ Len(tokens) >= 3
    /\ tokens[2].kind = "Delimiter" /\ tokens[2].lit = EAcute
    /\ tokens[1].kind = "QuotedArgument"
    /\ Len(tokens) = 4 /\ tokens[4].kind = "Argument"

-----------------------------------------------------------------------------
(* C15 *)

\* The literal a quote-aware accessor parses: a QuotedArgument without its
\* first and last character, any other token as it is.
StrippedLit(tok) ==
    IF tok.kind = "QuotedArgument" THEN SubSeq(tok.lit, 2, Len(tok.lit) - 1)
    ELSE tok.lit

\* What the remaining tokens parse to, one result per token.
ParsedRest(a, off, ty, quoted) ==
    [k \in 1..(Len(a) - off) |->
        from_str(ty, IF quoted THEN StrippedLit(a[off + k]) ELSE a[off + k].lit)]

ValueOf(r, ty) == IF ty = "String" THEN r.str ELSE r.num

\* C15: multiple and multiple_quoted return EndOfInput on an empty Args,
\* never an empty collection; otherwise they return all remaining tokens
\* parsed in order, or the first parse failure, stopping at it.
C15_MultipleFailsFast ==
    [][\A name \in {"multiple", "multiple_quoted"} :
         Called(name) =>
           LET rs == ParsedRest(args, offset, op'.ty, name = "multiple_quoted")
               bad == {k \in 1..Len(rs) : rs[k].tag # "Ok"}
           IN  /\ ret' # OkList(<< >>)
               /\ pc' = "consumed"
               /\ IF offset >= Len(args) THEN ret' = Eos
                  ELSE IF bad = {}
                  THEN /\ ret' = OkList([k \in 1..Len(rs) |-> ValueOf(rs[k], op'.ty)])
                       /\ offset' = Len(args)
                  ELSE /\ ret' = ParseError
                       /\ \A k \in bad : offset' < offset + k]_vars

-----------------------------------------------------------------------------
(* C16 *)

\* Index (from 1) of the last double quote of a string that holds one.
LastQuote(m) ==
    CHOOSE e \in 1..Len(m) :
        m[e] = "\"" /\ \A j \in (e + 1)..Len(m) : m[j] # "\""

HasQuotePair(m) ==
    /\ m # << >> /\ m[1] = "\""
    /\ \E e \in 2..Len(m) : m[e] = "\""

\* The string without its leading double quote and its last double quote.
WithoutQuotePair(m) ==
    SubSeq(m, 2, LastQuote(m) - 1) \o SubSeq(m, LastQuote(m) + 1, Len(m))

\* C16: full_quoted returns the message with one layer of quoting stripped
\* (its leading and its closing double quote removed, nothing else) when
\* the message begins with a double quote and holds a later one, and the
\* message unmodified in every other case.
C16_FullQuotedStripsOnePair ==
    full_quoted(message) =
        (IF HasQuotePair(message) THEN WithoutQuotePair(message) ELSE message)

-----------------------------------------------------------------------------
(* C17 *)

\* The characters of the configured strings that occur in the message as
\* whole strings.
ActiveChars ==
    {c \in Alphabet :
        \E i \in 1..Len(possible_delimiters) :
            /\ str_contains(message, possible_delimiters[i])
            /\ \E j \in 1..Len(chars(possible_delimiters[i])) :
                  chars(possible_delimiters[i])[j] = c}

\* C17: the active delimiters are the characters of the configured strings
\* that occur whole in the message; every Delimiter token is one such
\* character, never a multi-character unit; a plain argument holds none of
\* them; a configured string that does not occur whole contributes nothing.
C17_DelimiterSet ==
    /\ {delims[j] : j \in 1..Len(delims)} = ActiveChars
    /\ \A i \in 1..Len(tokens) :
          LET t == tokens[i]
          IN  /\ t.kind = "Delimiter"
                   => (t.lit \in ActiveChars /\ Len(chars(t.lit)) = 1)
              /\ (t.kind = "Argument" /\ t.lit[1] # "\"")
                   => \A j \in 1..Len(chars(t.lit)) : chars(t.lit)[j] \notin ActiveChars
              /\ (\A k \in 1..Len(possible_delimiters) :
                     ~str_contains(message, possible_delimiters[k]))
                   => t.kind # "Delimiter"

\* The two-character delimiter string occurs in the message: its characters
\* split one by one, and the space splits again where it stands alone.
C17_Witness ==
    /\ pc = "ready" /\ possible_delimiters = <<EAcute \o Space>>
    /\ Len(tokens) = 5
    /\ tokens[1].kind = "Delimiter" /\ tokens[1].lit = EAcute
    /\ tokens[2].kind = "Delimiter" /\ tokens[2].lit = Space
    /\ tokens[3].kind = "Argument"
    /\ tokens[4].kind = "Delimiter" /\ tokens[4].lit = Space

-----------------------------------------------------------------------------
(* C18 *)

\* C18: single_quoted and single_quoted_n behave like single and single_n,
\* except that a QuotedArgument is parsed without its first and last
\* character; an Argument is parsed as it is.
C18_SingleQuoted ==
    [][\A name \in {"single_quoted", "single_quoted_n"} :
         Called(name) =>
           /\ args' = args
           /\ IF offset >= Len(args)
              THEN ret' = Eos /\ offset' = offset
              ELSE LET r == from_str(op'.ty, StrippedLit(args[offset + 1]))
                   IN  /\ ret' = (IF r.tag = "Ok" THEN r ELSE ParseError)
                       /\ offset' = (IF r.tag = "Ok" /\ name = "single_quoted"
                                     THEN offset + 1 ELSE offset)]_vars

-----------------------------------------------------------------------------
(* C19 *)

\* C19: rewind moves the cursor back by one when it is above 0 and changes
\* nothing when it is 0; restore sets the cursor to 0; neither changes the
\* held tokens or the message.
C19_RewindRestore ==
    [][/\ Called("rewind") =>
            /\ offset' = (IF offset > 0 THEN offset - 1 ELSE offset)
            /\ args' = args /\ message' = message
       /\ Called("restore") =>
            /\ offset' = 0
            /\ args' = args /\ message' = message]_vars

\* A rewind has moved the cursor from 3 to 2 on three held tokens.
C19_Witness ==
    /\ op.name = "rewind" /\ offset = 2 /\ Len(args) = 3

-----------------------------------------------------------------------------
(* C20 *)

\* C20: every commit made before the end of the message emits one token
\* with a non-empty literal and moves the scan offset strictly forward,
\* never past the end; at the end of the message Args::new returns; lexing
\* never fails, and the empty message yields no token.
C20_LexingTerminates ==
    [][(pc = "new") =>
         \/ /\ lex_offset < Len(message)
            /\ pc' = "new"
            /\ lex_offset < lex_offset' /\ lex_offset' <= Len(message)
            /\ Len(tokens') = Len(tokens) + 1
            /\ tokens'[Len(tokens')].lit # << >>
         \/ /\ lex_offset >= Len(message)
            /\ pc' = "ready"
            /\ tokens' = tokens
            /\ (message = << >> => tokens' = << >> /\ args' = << >>)]_vars

\* Construction returned after three commits that consumed the message.
C20_Witness ==
    /\ JustBuilt /\ Len(tokens) = 3 /\ lex_offset = Len(message)
    /\ tokens[2].kind = "QuotedArgument"

-----------------------------------------------------------------------------
(* C21 *)

\* The Args value of the current state.
Self == [message |-> message, args |-> args, offset |-> offset]

\* The Args value as Args::new returned it: every token of the message that
\* is not a delimiter, the cursor at 0.
Built ==
    [message |-> message,
     args    |-> SelectSeq(tokens, LAMBDA t : t.kind # "Delimiter"),
     offset  |-> 0]

\* Newly built Args values: of the same message, of the empty message and
\* of a one-character message.
Others ==
    {Built} \cup {Args_new(m2, possible_delimiters) : m2 \in {<< >>, Digit}}

\* Equality holds exactly between equal messages.
EqualityByText ==
    /\ JustBuilt => (Self = Built /\ Self = Args_new(message, possible_delimiters))
    /\ pc # "new" =>
         \A other \in Others :
             /\ eq(Self, other) <=> (message = other.message)
             /\ eq(other, Self) <=> (message = other.message)

\* C21: an Args equals another one exactly when their messages are equal,
\* whatever its cursor and whatever find has removed from it; full() is the
\* original message after every step.
C21_EqualityByText ==
    /\ []EqualityByText
    /\ [][full(message') = full(message) /\ full(message') = message]_vars

\* A find has removed a token and left the cursor above 0: the Args differs
\* from a newly built one in tokens and cursor.
C21_Witness ==
    /\ op.name = "find" /\ ret.tag = "Ok" /\ offset >= 1
    /\ Len(args) < Len(Built.args)
    /\ Self # Built

-----------------------------------------------------------------------------
(* C22 *)

\* C22: skip_for(n) with 0 <= n <= remaining(), n = 0 on an empty Args
\* included, succeeds, returns the n literals from the cursor on in order,
\* and moves the cursor forward by n.
C22_SkipForIsNSkips ==
    [][(Called("skip_for") /\ op'.n <= remaining(args, offset)) =>
         /\ ret' = SomeList([k \in 1..op'.n |-> args[offset + k].lit])
         /\ offset' = offset + op'.n
         /\ args' = args]_vars

-----------------------------------------------------------------------------
(* C23 *)

\* C23: rest() is empty when the cursor is at the end, and otherwise the
\* suffix of the message from the position of the token under the cursor;
\* every token of the message lying at or after that position, held or
\* removed by find, appears in it where the message has it.
C23_RestIsSuffix ==
    pc # "new" =>
      /\ rest_ok(message, args, offset)
      /\ IF offset >= len(args)
         THEN rest(message, args, offset) = << >>
         ELSE LET start == args[offset + 1].pos
                  r     == rest(message, args, offset)
              IN  /\ r = SubSeq(message, start + 1, Len(message))
                  /\ \A i \in 1..Len(tokens) :
                        tokens[i].pos >= start =>
                          SubSeq(r, tokens[i].pos - start + 1,
                                 tokens[i].pos - start + Len(tokens[i].lit))
                            = tokens[i].lit

\* A find has removed a token that lies after the token under the cursor.
C23_Witness ==
    /\ pc = "ready" /\ op.name = "find" /\ ret.tag = "Ok"
    /\ offset < Len(args)
    /\ \E i \in 1..Len(tokens) :
          /\ tokens[i].kind # "Delimiter"
          /\ tokens[i].pos > args[offset + 1].pos
          /\ \A k \in 1..Len(args) : args[k] # tokens[i]

-----------------------------------------------------------------------------
(* C24 *)

\* C24: the tokens of the lexer tile the message: each literal is not
\* empty, the first token starts at 0, each next one starts where the one
\* before it ends, and the last one ends at the scan offset, which is the
\* length of the message once Args::new has returned; the held tokens have
\* strictly increasing positions.
C24_TokensTileMessage ==
    /\ \A i \in 1..Len(tokens) :
          /\ tokens[i].lit # << >>
          /\ tokens[i].pos =
               (IF i = 1 THEN 0 ELSE tokens[i - 1].pos + Len(tokens[i - 1].lit))
    /\ (IF tokens = << >> THEN 0
        ELSE tokens[Len(tokens)].pos + Len(tokens[Len(tokens)].lit)) = lex_offset
    /\ pc # "new" => lex_offset = Len(message)
    /\ \A k \in 1..(Len(args) - 1) : args[k].pos < args[k + 1].pos

\* A find has removed the middle one of three held tokens of a message with
\* delimiters between them.
C24_Witness ==
    /\ op.name = "find" /\ ret.tag = "Ok" /\ Len(args) = 2 /\ Len(tokens) = 5
    /\ args[1] = tokens[1] /\ args[2] = tokens[5]

====
